---- MODULE Spec2Model ----
(***************************************************************************)
(* Model of src/src/model_factory.py: the ModelBase wrapper (train,        *)
(* predict, evaluate, save, load), its two variants and the get_model      *)
(* factory.  The scikit-learn estimators and pickle are external; they are *)
(* modelled by what the wrapper relies on: an estimator is an object with  *)
(* hyperparameters and, once fit, the learned attributes classes_ and      *)
(* tree_; predict on an estimator without learned attributes raises        *)
(* NotFittedError; pickle writes the class and the attribute dictionary    *)
(* and reads it back into a new object.  A second specification models    *)
(* main of src/test_api.py, the script that probes the running API.        *)
(***************************************************************************)
EXTENDS Integers, Sequences, FiniteSets, TLC

\* ---------------------------------------------------------------- bounds
MaxInst == 2        \* wrapper instances constructed in one run
NumPaths == 1       \* file paths used by save / load
MaxRows == 2        \* rows of a feature matrix / label vector (SpecData)
LifeRows == 1       \* the same in the two-instance specification Spec
MaxFeature == 1     \* feature vectors are the scalars 0..MaxFeature
MaxLabel == 1       \* class labels are 0..MaxLabel
MaxLatency == 1     \* whole seconds an HTTP request of the test script can take
MaxOtherStatus == 2 \* HTTP status codes other than 200 a response can carry

\* ------------------------------------------------------ program constants
None == 0                   \* self.model = None
DefaultMaxDepth == 10
DefaultRandomState == 42
DefaultNEstimators == 100
HTTP_OK == 200              \* response.status_code == 200
MainTimeout == 5            \* wait_for_api(timeout=5)
SleepSeconds == 1           \* time.sleep(1)

Features == 0..MaxFeature
Labels == 0..MaxLabel
Paths == 1..NumPaths
ObjIds == 1..MaxInst
Matrices(rows) == UNION {[1..n -> Features] : n \in 0..rows}
Vectors(rows) == UNION {[1..n -> Labels] : n \in 0..rows}
Keys == {"decision_tree", "random_forest", "unknown_key"}

VARIABLES
    insts,      \* the wrapper instances, in order of construction
    heap,       \* the live estimator objects, by object identity
    files,      \* the file system: what is stored at each path
    last,       \* the last call: operation, arguments, exception, result
    pc,         \* test_api.py: where main is, or how it has ended
    elapsed,    \* test_api.py: time.time() - start_time, in whole seconds
    ready,      \* test_api.py: what wait_for_api has returned
    sent,       \* test_api.py: the requests test_endpoint has issued
    results     \* test_api.py: the values test_endpoint has returned

factory == <<insts, heap, files, last>>
script == <<pc, elapsed, ready, sent, results>>
vars == <<insts, heap, files, last, pc, elapsed, ready, sent, results>>

Range(s) == {s[k] : k \in DOMAIN s}

\* ------------------------------------------------------------ exceptions
Error(exc, at, msg) == [exc |-> exc, at |-> at, msg |-> msg, key |-> "", available |-> <<>>]
NoError == Error("none", "none", "")
\* line 24: raise ValueError("Model not initialized")
NotInitializedError ==
    Error("ValueError", "ModelBase.train", "Model not initialized")
\* line 30: raise ValueError("Model not trained")
NotTrainedError ==
    Error("ValueError", "ModelBase.predict", "Model not trained")
\* sklearn: predict on an estimator that was never fit
NotFittedError ==
    Error("NotFittedError", "sklearn", "This instance is not fitted yet")
\* sklearn: input validation of fit / predict / the metrics
BackendValueError ==
    Error("ValueError", "sklearn", "invalid input")
FileNotFoundError ==
    Error("FileNotFoundError", "open", "No such file")
UnpicklingError ==
    Error("UnpicklingError", "pickle.load", "invalid load key")
\* line 42, were the divisor 0
ZeroDivisionError ==
    Error("ZeroDivisionError", "ModelBase.evaluate", "division by zero")

\* ------------------------------------------- the estimators (scikit-learn)
\* An estimator object: its class, its hyperparameters and, after fit, its
\* learned attributes.  tree_[x + 1] is the label the fitted estimator gives
\* to the feature vector x.
UnfittedEstimator(cls, max_depth, random_state, n_estimators) ==
    [cls |-> cls, max_depth |-> max_depth, random_state |-> random_state,
     n_estimators |-> n_estimators, fitted |-> FALSE, classes_ |-> {}, tree_ |-> <<>>]

DecisionTreeClassifier(max_depth, random_state) ==
    UnfittedEstimator("DecisionTreeClassifier", max_depth, random_state, 0)

RandomForestClassifier(n_estimators, max_depth, random_state) ==
    UnfittedEstimator("RandomForestClassifier", max_depth, random_state, n_estimators)

Abs(n) == IF n < 0 THEN -n ELSE n

Count(s, c) == Cardinality({k \in DOMAIN s : s[k] = c})

\* the most frequent label among the rows `rows` of y; the first class wins a
\* tie (argmax over the sorted classes_)
Majority(y, rows) ==
    LET n(c) == Cardinality({k \in rows : y[k] = c})
    IN CHOOSE c \in Labels :
          /\ n(c) > 0
          /\ \A d \in Labels : n(d) < n(c) \/ (n(d) = n(c) /\ c <= d)

\* The leaf a feature vector v falls into.  A tree grown on scalar features
\* splits at the midpoints between neighbouring training values, and v goes
\* left when it is <= the threshold: v lands with the nearest training value,
\* the smaller one when two are equally near.  A forest averages the votes
\* of the trees; it is modelled by the rows of all the nearest training
\* values.
Leaf(cls, X, v) ==
    LET dist == CHOOSE d \in 0..(MaxFeature + 1) :
                   /\ \E k \in DOMAIN X : Abs(X[k] - v) = d
                   /\ \A k \in DOMAIN X : Abs(X[k] - v) >= d
        near == {k \in DOMAIN X : Abs(X[k] - v) = dist}
        left == {k \in near : X[k] <= v}
    IN IF cls = "DecisionTreeClassifier" /\ left # {} THEN left ELSE near

\* a fit that discards what was learned before it validates its input
FitClearsFirst(est, X, y) ==
    IF Len(X) = 0 \/ Len(X) # Len(y)
    THEN [est EXCEPT !.fitted = FALSE, !.classes_ = {}, !.tree_ = <<>>]
    ELSE [est EXCEPT !.fitted = TRUE,
                     !.classes_ = Range(y),
                     !.tree_ = [i \in 1..(MaxFeature + 1) |-> Majority(y, Leaf(est.cls, X, i - 1))]]

\* a fit that keeps the classes it had seen before (a warm start)
FitWarmStart(est, X, y) ==
    IF Len(X) = 0 \/ Len(X) # Len(y) THEN est
    ELSE [est EXCEPT !.fitted = TRUE,
                     !.classes_ = est.classes_ \cup Range(y),
                     !.tree_ = [i \in 1..(MaxFeature + 1) |-> Majority(y, Leaf(est.cls, X, i - 1))]]

\* estimator.fit(X, y): validates the input, then replaces the learned
\* attributes; an invalid input raises before anything is changed
FitError(X, y) == IF Len(X) = 0 \/ Len(X) # Len(y) THEN BackendValueError ELSE NoError

Fit(est, X, y) ==
    IF FitError(X, y) # NoError THEN est
    ELSE [est EXCEPT !.fitted = TRUE,
                     !.classes_ = Range(y),
                     !.tree_ = [i \in 1..(MaxFeature + 1) |-> Majority(y, Leaf(est.cls, X, i - 1))]]

\* a predict that returns the labels last row first
EstimatorPredictReversed(est, X) ==
    [k \in 1..Len(X) |-> est.tree_[X[Len(X) + 1 - k] + 1]]

\* estimator.predict(X): NotFittedError without learned attributes, a
\* ValueError for an empty matrix, else one label per row, in order
EstimatorPredictError(est, X) ==
    IF ~est.fitted THEN NotFittedError
    ELSE IF Len(X) = 0 THEN BackendValueError
    ELSE NoError

EstimatorPredict(est, X) == [k \in 1..Len(X) |-> est.tree_[X[k] + 1]]

\* ------------------------------------------------------------------ pickle
\* pickle.dump(obj, f) writes None as the None opcode and an estimator as its
\* class followed by its attribute dictionary; pickle.load builds a new
\* object of that class with that dictionary.
NoState ==
    [max_depth |-> 0, random_state |-> 0, n_estimators |-> 0,
     fitted |-> FALSE, classes_ |-> {}, tree_ |-> <<>>]

NoFile == [exists |-> FALSE, kind |-> "none", cls |-> "none", state |-> NoState]
Garbage == [exists |-> TRUE, kind |-> "garbage", cls |-> "none", state |-> NoState]

\* a pickle that keeps the class and the hyperparameters but not the learned
\* attributes
DumpsHyperparametersOnly(h, ref) ==
    IF ref = None
    THEN [exists |-> TRUE, kind |-> "None", cls |-> "none", state |-> NoState]
    ELSE [exists |-> TRUE, kind |-> "object", cls |-> h[ref].cls,
          state |-> [NoState EXCEPT !.max_depth = h[ref].max_depth,
                                    !.random_state = h[ref].random_state,
                                    !.n_estimators = h[ref].n_estimators]]

Dumps(h, ref) ==
    IF ref = None
    THEN [exists |-> TRUE, kind |-> "None", cls |-> "none", state |-> NoState]
    ELSE [exists |-> TRUE, kind |-> "object", cls |-> h[ref].cls,
          state |-> [max_depth |-> h[ref].max_depth,
                     random_state |-> h[ref].random_state,
                     n_estimators |-> h[ref].n_estimators,
                     fitted |-> h[ref].fitted,
                     classes_ |-> h[ref].classes_,
                     tree_ |-> h[ref].tree_]]

\* open(filepath, 'rb') and pickle.load: the exception, if any
LoadError(file) ==
    IF ~file.exists THEN FileNotFoundError
    ELSE IF file.kind = "garbage" THEN UnpicklingError
    ELSE NoError

\* a load that rebuilds the estimator from its class and hyperparameters and
\* loses what it had learned
LoadsUnfitted(file) ==
    UnfittedEstimator(file.cls, file.state.max_depth, file.state.random_state,
                      file.state.n_estimators)

\* the estimator a readable artifact holding an object decodes to
Loads(file) ==
    [cls |-> file.cls,
     max_depth |-> file.state.max_depth,
     random_state |-> file.state.random_state,
     n_estimators |-> file.state.n_estimators,
     fitted |-> file.state.fitted,
     classes_ |-> file.state.classes_,
     tree_ |-> file.state.tree_]

\* ------------------------------------------------------- rational numbers
\* the metrics are fractions; <<n, d>> with d > 0 and in lowest terms
RECURSIVE Gcd(_, _)
Gcd(a, b) == IF b = 0 THEN a ELSE Gcd(b, a % b)

Rat(n, d) == IF n = 0 THEN <<0, 1>> ELSE <<n \div Gcd(n, d), d \div Gcd(n, d)>>
RatAdd(p, q) == Rat(p[1] * q[2] + q[1] * p[2], p[2] * q[2])
RatMul(p, q) == Rat(p[1] * q[1], p[2] * q[2])
RatDiv(p, q) == Rat(p[1] * q[2], p[2] * q[1])
RatPos(p) == p[1] > 0

RECURSIVE RatSum(_, _)
RatSum(f, S) ==
    IF S = {} THEN Rat(0, 1)
    ELSE LET c == CHOOSE c \in S : TRUE IN RatAdd(f[c], RatSum(f, S \ {c}))

\* ------------------------------------------------------- sklearn.metrics
\* precision_score / recall_score (average='weighted', zero_division=0):
\* the per-class score, 0 where its denominator is 0, weighted by the
\* class's share of y_true
MetricError(y_true, y_pred) ==
    IF Len(y_true) # Len(y_pred) THEN BackendValueError ELSE NoError

TruePositives(y_true, y_pred, c) ==
    Cardinality({k \in DOMAIN y_true : y_true[k] = c /\ y_pred[k] = c})

precision_score(y_true, y_pred) ==
    LET classes == Range(y_true) \cup Range(y_pred)
        term == [c \in classes |->
                   IF Count(y_pred, c) = 0 THEN Rat(0, 1)
                   ELSE Rat(Count(y_true, c) * TruePositives(y_true, y_pred, c),
                            Len(y_true) * Count(y_pred, c))]
    IN RatSum(term, classes)

recall_score(y_true, y_pred) ==
    LET classes == Range(y_true) \cup Range(y_pred)
        term == [c \in classes |->
                   IF Count(y_true, c) = 0 THEN Rat(0, 1)
                   ELSE Rat(Count(y_true, c) * TruePositives(y_true, y_pred, c),
                            Len(y_true) * Count(y_true, c))]
    IN RatSum(term, classes)

\* line 42: 2 * (precision * recall) / (precision + recall)
\*          if (precision + recall) > 0 else 0
DivisionError == <<0, 0>>
Divide(p, q) == IF q[1] = 0 THEN DivisionError ELSE RatDiv(p, q)

\* line 42 without its condition
F1Unguarded(precision, recall) ==
    Divide(RatMul(Rat(2, 1), RatMul(precision, recall)), RatAdd(precision, recall))

F1Score(precision, recall) ==
    IF RatPos(RatAdd(precision, recall))
    THEN Divide(RatMul(Rat(2, 1), RatMul(precision, recall)), RatAdd(precision, recall))
    ELSE Rat(0, 1)

\* ------------------------------------------------------------ the wrapper
\* the estimator objects still referenced by an instance
Collect(is, h) ==
    [o \in {is[j].model : j \in DOMAIN is} \ {None} |-> h[o]]

\* an identity handed out again although another instance still holds it
NewRefShared(is, self) ==
    CHOOSE o \in ObjIds : \A p \in ObjIds : o <= p

\* the identity of a newly created estimator that instance `self` is about
\* to hold: an object no other instance references
NewRef(is, self) ==
    CHOOSE o \in ObjIds :
        /\ \A j \in DOMAIN is : j # self => is[j].model # o
        /\ \A p \in ObjIds : p < o => \E j \in DOMAIN is : j # self /\ is[j].model = p

\* the constructors: model_name and the estimator the instance starts with
\* (cls "none": self.model stays None)
ModelBase ==
    [model_name |-> "BaseModel", est |-> UnfittedEstimator("none", 0, 0, 0)]

DecisionTreeModel(max_depth, random_state) ==
    [model_name |-> "DecisionTree", est |-> DecisionTreeClassifier(max_depth, random_state)]

RandomForestModel(n_estimators, max_depth, random_state) ==
    [model_name |-> "RandomForest",
     est |-> RandomForestClassifier(n_estimators, max_depth, random_state)]

\* a registry whose two entries are crossed
modelsCrossed ==
    [decision_tree |-> RandomForestModel(DefaultNEstimators, DefaultMaxDepth, DefaultRandomState),
     random_forest |-> DecisionTreeModel(DefaultMaxDepth, DefaultRandomState)]

\* the factory's registry: key -> constructor called with its defaults
models ==
    [decision_tree |-> DecisionTreeModel(DefaultMaxDepth, DefaultRandomState),
     random_forest |-> RandomForestModel(DefaultNEstimators, DefaultMaxDepth, DefaultRandomState)]

\* list(d.keys()): the keys of a dict, as a list
keys(d) ==
    CHOOSE s \in [1..Cardinality(DOMAIN d) -> DOMAIN d] : Range(s) = DOMAIN d

\* line 89: ValueError(f"Unknown model type: {model_type}. Available: {list(models.keys())}")
UnknownModelTypeError(model_type) ==
    [exc |-> "ValueError", at |-> "get_model",
     msg |-> "Unknown model type: {model_type}. Available: {list(models.keys())}",
     key |-> model_type, available |-> keys(models)]

\* the state of an instance in the spec's terms
State(is, h, self) ==
    IF is[self].model = None THEN "uninitialized"
    ELSE IF h[is[self].model].fitted THEN "trained"
    ELSE "untrained"

NoMetrics == <<>>

\* the record of a call: the operation, the instance it was called on and
\* that instance's state when it was called, the arguments, the exception
\* raised (NoError: it returned) and the value returned
Call(op, self, X, y, path, key, exc, pred, metrics, inst) ==
    [op |-> op, self |-> self,
     before |-> IF self = 0 THEN "none" ELSE State(insts, heap, self),
     X |-> X, y |-> y, path |-> path, key |-> key,
     exc |-> exc, pred |-> pred, metrics |-> metrics, inst |-> inst]

\* the instance a constructor call leaves behind, appended to insts
Constructed(op, key, made) ==
    LET self == Len(insts) + 1
        ref == IF made.est.cls = "none" THEN None
               ELSE NewRef(insts, self)
        is == Append(insts, [model |-> ref, model_name |-> made.model_name])
    IN /\ insts' = is
       /\ heap' = Collect(is, IF ref = None THEN heap ELSE (ref :> made.est) @@ heap)
       /\ last' = Call(op, 0, <<>>, <<>>, 0, key, NoError, <<>>, NoMetrics, self)
       /\ UNCHANGED files

\* a variant constructor called directly, with its default configuration
Construct(variant) ==
    Constructed(variant, "",
          CASE variant = "ModelBase" -> ModelBase
            [] variant = "DecisionTreeModel" ->
                  DecisionTreeModel(DefaultMaxDepth, DefaultRandomState)
            [] variant = "RandomForestModel" ->
                  RandomForestModel(DefaultNEstimators, DefaultMaxDepth, DefaultRandomState))

\* a factory that falls back to the decision tree for a key it does not know
get_modelWithDefault(model_type) ==
    /\ Len(insts) < MaxInst
    /\ Constructed("get_model", model_type,
                   IF model_type \in DOMAIN models THEN models[model_type]
                   ELSE DecisionTreeModel(DefaultMaxDepth, DefaultRandomState))

get_model(model_type) ==
    IF model_type \notin DOMAIN models
    THEN /\ last' = Call("get_model", 0, <<>>, <<>>, 0, model_type,
                         UnknownModelTypeError(model_type), <<>>, NoMetrics, 0)
         /\ UNCHANGED <<insts, heap, files>>
    ELSE Constructed("get_model", model_type, models[model_type])

\* a train without the check of line 23: None has no fit
trainUnchecked(self, X_train, y_train) ==
    IF insts[self].model = None
    THEN /\ last' = Call("train", self, X_train, y_train, 0, "",
                         Error("AttributeError", "ModelBase.train",
                               "'NoneType' object has no attribute 'fit'"),
                         <<>>, NoMetrics, 0)
         /\ UNCHANGED <<insts, heap, files>>
    ELSE /\ heap' = [heap EXCEPT ![insts[self].model] = Fit(@, X_train, y_train)]
         /\ last' = Call("train", self, X_train, y_train, 0, "",
                         FitError(X_train, y_train), <<>>, NoMetrics, 0)
         /\ UNCHANGED <<insts, files>>

train(self, X_train, y_train) ==
    IF insts[self].model = None
    THEN /\ last' = Call("train", self, X_train, y_train, 0, "",
                         NotInitializedError, <<>>, NoMetrics, 0)
         /\ UNCHANGED <<insts, heap, files>>
    ELSE /\ heap' = [heap EXCEPT ![insts[self].model] = Fit(@, X_train, y_train)]
         /\ last' = Call("train", self, X_train, y_train, 0, "",
                         FitError(X_train, y_train), <<>>, NoMetrics, 0)
         /\ UNCHANGED <<insts, files>>

\* what predict raises or returns
predict_result(is, h, self, X) ==
    IF is[self].model = None
    THEN [exc |-> NotTrainedError, ret |-> <<>>]
    ELSE IF EstimatorPredictError(h[is[self].model], X) # NoError
    THEN [exc |-> EstimatorPredictError(h[is[self].model], X), ret |-> <<>>]
    ELSE [exc |-> NoError, ret |-> EstimatorPredict(h[is[self].model], X)]

predict(self, X) ==
    /\ last' = Call("predict", self, X, <<>>, 0, "",
                    predict_result(insts, heap, self, X).exc,
                    predict_result(insts, heap, self, X).ret, NoMetrics, 0)
    /\ UNCHANGED <<insts, heap, files>>

\* what evaluate raises or returns
evaluate_result(is, h, self, X_test, y_test) ==
    LET y_pred == predict_result(is, h, self, X_test)
        precision == precision_score(y_test, y_pred.ret)
        recall == recall_score(y_test, y_pred.ret)
        f1 == F1Score(precision, recall)
    IN IF y_pred.exc # NoError THEN [exc |-> y_pred.exc, ret |-> NoMetrics]
       ELSE IF MetricError(y_test, y_pred.ret) # NoError
       THEN [exc |-> MetricError(y_test, y_pred.ret), ret |-> NoMetrics]
       ELSE IF f1 = DivisionError THEN [exc |-> ZeroDivisionError, ret |-> NoMetrics]
       ELSE [exc |-> NoError,
             ret |-> [precision |-> precision, recall |-> recall, f1_score |-> f1]]

evaluate(self, X_test, y_test) ==
    /\ last' = Call("evaluate", self, X_test, y_test, 0, "",
                    evaluate_result(insts, heap, self, X_test, y_test).exc, <<>>,
                    evaluate_result(insts, heap, self, X_test, y_test).ret, 0)
    /\ UNCHANGED <<insts, heap, files>>

\* a save that hands the estimator over to the file and keeps none
saveAndRelease(self, filepath) ==
    /\ files' = [files EXCEPT ![filepath] = Dumps(heap, insts[self].model)]
    /\ insts' = [insts EXCEPT ![self].model = None]
    /\ heap' = Collect(insts', heap)
    /\ last' = Call("save", self, <<>>, <<>>, filepath, "", NoError, <<>>, NoMetrics, 0)

\* a save that leaves a file that already exists as it is
saveIfAbsent(self, filepath) ==
    /\ files' = IF files[filepath].exists THEN files
                ELSE [files EXCEPT ![filepath] = Dumps(heap, insts[self].model)]
    /\ last' = Call("save", self, <<>>, <<>>, filepath, "", NoError, <<>>, NoMetrics, 0)
    /\ UNCHANGED <<insts, heap>>

save(self, filepath) ==
    /\ files' = [files EXCEPT ![filepath] = Dumps(heap, insts[self].model)]
    /\ last' = Call("save", self, <<>>, <<>>, filepath, "", NoError, <<>>, NoMetrics, 0)
    /\ UNCHANGED <<insts, heap>>

\* a load that drops the estimator it holds before it reads the file
loadClearsFirst(self, filepath) ==
    IF LoadError(files[filepath]) # NoError
    THEN /\ insts' = [insts EXCEPT ![self].model = None]
         /\ heap' = Collect(insts', heap)
         /\ last' = Call("load", self, <<>>, <<>>, filepath, "",
                         LoadError(files[filepath]), <<>>, NoMetrics, 0)
         /\ UNCHANGED files
    ELSE LET ref == IF files[filepath].kind = "None" THEN None ELSE NewRef(insts, self)
             is == [insts EXCEPT ![self].model = ref]
         IN /\ insts' = is
            /\ heap' = Collect(is, IF ref = None THEN heap
                                   ELSE (ref :> Loads(files[filepath])) @@ heap)
            /\ last' = Call("load", self, <<>>, <<>>, filepath, "", NoError, <<>>, NoMetrics, 0)
            /\ UNCHANGED files

\* a load that also takes the name tag of the class it has loaded
loadRenames(self, filepath) ==
    IF LoadError(files[filepath]) # NoError
    THEN /\ last' = Call("load", self, <<>>, <<>>, filepath, "",
                         LoadError(files[filepath]), <<>>, NoMetrics, 0)
         /\ UNCHANGED <<insts, heap, files>>
    ELSE LET ref == IF files[filepath].kind = "None" THEN None ELSE NewRef(insts, self)
             tag == IF ref = None THEN ModelBase.model_name
                    ELSE IF Loads(files[filepath]).cls = "DecisionTreeClassifier"
                         THEN "DecisionTree" ELSE "RandomForest"
             is == [insts EXCEPT ![self] = [model |-> ref, model_name |-> tag]]
         IN /\ insts' = is
            /\ heap' = Collect(is, IF ref = None THEN heap
                                   ELSE (ref :> Loads(files[filepath])) @@ heap)
            /\ last' = Call("load", self, <<>>, <<>>, filepath, "", NoError, <<>>, NoMetrics, 0)
            /\ UNCHANGED files

load(self, filepath) ==
    IF LoadError(files[filepath]) # NoError
    THEN /\ last' = Call("load", self, <<>>, <<>>, filepath, "",
                         LoadError(files[filepath]), <<>>, NoMetrics, 0)
         /\ UNCHANGED <<insts, heap, files>>
    ELSE LET ref == IF files[filepath].kind = "None" THEN None ELSE NewRef(insts, self)
             is == [insts EXCEPT ![self].model = ref]
         IN /\ insts' = is
            /\ heap' = Collect(is, IF ref = None THEN heap
                                   ELSE (ref :> Loads(files[filepath])) @@ heap)
            /\ last' = Call("load", self, <<>>, <<>>, filepath, "", NoError, <<>>, NoMetrics, 0)
            /\ UNCHANGED files

\* ------------------------------------------------------- src/test_api.py
\* The smoke-test script.  The API it talks to is external: a request either
\* gets a response (a status code and a body that is JSON or not) or raises
\* requests.exceptions.ConnectionError.

StatusCodes == HTTP_OK..(HTTP_OK + MaxOtherStatus)
Responses == [status_code : StatusCodes, json : BOOLEAN]
Latencies == 0..MaxLatency

NoData == [gravita |-> "", categoria |-> ""]

Request(name, method, endpoint, data) ==
    [name |-> name, method |-> method, endpoint |-> endpoint, data |-> data]

\* the predict scenarios of main, by the fields that tell them apart
test_cases ==
    << [name |-> "Tamponamento ad alta gravita",
        data |-> [gravita |-> "high", categoria |-> "tamponamento"]],
       [name |-> "Collisione con ostacolo a bassa gravita",
        data |-> [gravita |-> "low", categoria |-> "collisione_con_ostacolo"]],
       [name |-> "Investimento ad alta gravita",
        data |-> [gravita |-> "high", categoria |-> "investimento"]],
       [name |-> "Incendio veicolo ad alta gravita",
        data |-> [gravita |-> "high", categoria |-> "incendio_veicolo"]] >>

\* the calls of test_endpoint that main makes, in the order of its text
main_calls ==
    << Request("Root Endpoint", "GET", "/", NoData),
       Request("Health Check", "GET", "/health", NoData),
       Request("Get All Protocols", "GET", "/protocols", NoData) >>
    \o [k \in DOMAIN test_cases |->
          Request("Predict Protocol", "POST", "/predict", test_cases[k].data)]
    \o << Request("Error Handling: Invalid Category", "POST", "/predict",
                  [gravita |-> "high", categoria |-> "invalid_category"]) >>

\* wait_for_api as main calls it: one pass of its loop (a GET of /health that
\* is answered, or refused and followed by the sleep), or its return of False
\* once the time is up, on which main returns 1
wait_for_api(timeout) ==
    /\ pc = "wait_for_api"
    /\ IF elapsed < timeout
       THEN \E d \in Latencies :
               \/ \E response \in Responses :
                     IF response.status_code = HTTP_OK
                     THEN /\ ready' = "True"
                          /\ pc' = "test_endpoint"
                          /\ UNCHANGED elapsed
                     ELSE /\ elapsed' = elapsed + d
                          /\ UNCHANGED <<ready, pc>>
               \/ /\ elapsed' = elapsed + d + SleepSeconds
                  /\ UNCHANGED <<ready, pc>>
       ELSE /\ ready' = "False"
            /\ pc' = "return 1"
            /\ UNCHANGED elapsed
    /\ UNCHANGED <<sent, results>>

\* one call of test_endpoint: the request is sent outside any try, so a
\* refused connection ends main with the exception; a response is printed,
\* JSON or not, and the call returns whether its status is 200
test_endpoint(name, method, endpoint, data) ==
    /\ pc = "test_endpoint"
    /\ sent' = Append(sent, Request(name, method, endpoint, data))
    /\ \/ /\ method \in {"GET", "POST"}
          /\ \E response \in Responses :
                results' = Append(results, response.status_code = HTTP_OK)
          /\ UNCHANGED pc
       \/ /\ pc' = "raise"
          /\ UNCHANGED results
    /\ UNCHANGED <<elapsed, ready>>

\* main, once the API is ready: the next call of test_endpoint, its return
\* value dropped, or `return 0` after the last one
main ==
    \/ \E k \in DOMAIN main_calls :
          /\ k = Len(sent) + 1
          /\ test_endpoint(main_calls[k].name, main_calls[k].method,
                           main_calls[k].endpoint, main_calls[k].data)
    \/ /\ pc = "test_endpoint"
       /\ Len(sent) = Len(main_calls)
       /\ pc' = "return 0"
       /\ UNCHANGED <<elapsed, ready, sent, results>>

Init ==
    /\ insts = <<>>
    /\ heap = Collect(<<>>, <<>>)
    /\ files \in [Paths -> {NoFile, Garbage}]
    /\ last = [op |-> "init", self |-> 0, before |-> "none", X |-> <<>>, y |-> <<>>,
               path |-> 0, key |-> "", exc |-> NoError, pred |-> <<>>,
               metrics |-> NoMetrics, inst |-> 0]
    /\ pc = "wait_for_api"
    /\ elapsed = 0
    /\ ready = "pending"
    /\ sent = <<>>
    /\ results = <<>>

\* one call of the program, with at most n instances alive and the data
\* drawn from matrices and vectors of at most `rows` rows
Step(n, rows) ==
    \/ \E variant \in {"ModelBase", "DecisionTreeModel", "RandomForestModel"} :
          Len(insts) < n /\ Construct(variant) /\ UNCHANGED script
    \/ \E model_type \in Keys :
          /\ model_type \in DOMAIN models => Len(insts) < n
          /\ get_model(model_type)
          /\ UNCHANGED script
    \/ \E self \in DOMAIN insts, X \in Matrices(rows), y \in Vectors(rows) :
          train(self, X, y) /\ UNCHANGED script
    \/ \E self \in DOMAIN insts, X \in Matrices(rows) :
          predict(self, X) /\ UNCHANGED script
    \/ \E self \in DOMAIN insts, X \in Matrices(rows), y \in Vectors(rows) :
          evaluate(self, X, y) /\ UNCHANGED script
    \/ \E self \in DOMAIN insts, filepath \in Paths :
          save(self, filepath) /\ UNCHANGED script
    \/ \E self \in DOMAIN insts, filepath \in Paths :
          load(self, filepath) /\ UNCHANGED script

\* the life cycle of MaxInst instances sharing the file system
Next == Step(MaxInst, LifeRows)
Spec == Init /\ [][Next]_vars

\* one instance, trained and evaluated on all the data within the bounds
NextData == Step(1, MaxRows)
SpecData == Init /\ [][NextData]_vars

\* a run of the smoke-test script
NextSmoke ==
    \/ wait_for_api(MainTimeout) /\ UNCHANGED factory
    \/ main /\ UNCHANGED factory
SpecSmoke == Init /\ [][NextSmoke]_vars

\* ------------------------------------------------------------------ claims
Ok == last.exc = NoError
Variants == {"get_model", "DecisionTreeModel", "RandomForestModel"}
\* the inputs predict accepts from a fitted estimator
Inputs == Matrices(MaxRows) \ {<<>>}
PredictSucceeds(self) ==
    \A X \in Inputs : predict_result(insts, heap, self, X).exc = NoError
\* the state the saving instance was in when it wrote the artifact
ArtifactState(file) ==
    IF file.kind = "None" THEN "uninitialized"
    ELSE IF file.state.fitted THEN "trained"
    ELSE "untrained"

\* C1: predict or evaluate called on an instance that get_model or a variant
\* constructor has just returned, before any train or load, raises the
\* wrapper's own error ValueError("Model not trained") (NotTrainedError).
C1_FreshPredictRaisesNotTrained ==
    [][(/\ last.op \in Variants
        /\ last.exc = NoError
        /\ last'.op \in {"predict", "evaluate"}
        /\ last'.self = last.inst)
       => last'.exc = NotTrainedError]_vars

\* C2 as stated: after every successful load the loading instance is trained
\* and predict succeeds on it.
C2_LoadAlwaysTrains ==
    (last.op = "load" /\ Ok) =>
        /\ State(insts, heap, last.self) = "trained"
        /\ PredictSucceeds(last.self)

\* C2 amended: save records the state of the saving instance in the artifact,
\* and a successful load puts the loading instance, whatever state it was in,
\* into the state the artifact records; predict succeeds on it exactly when
\* that state is trained.
C2_LoadTakesArtifactState ==
    /\ last.op = "save" =>
          ArtifactState(files[last.path]) = State(insts, heap, last.self)
    /\ (last.op = "load" /\ Ok) =>
          /\ State(insts, heap, last.self) = ArtifactState(files[last.path])
          /\ PredictSucceeds(last.self) <=> ArtifactState(files[last.path]) = "trained"

\* an instance constructed uninitialized is trained after a load
C2_Witness ==
    /\ last.op = "load" /\ Ok
    /\ last.before = "uninitialized"
    /\ State(insts, heap, last.self) = "trained"
    /\ PredictSucceeds(last.self)

C4_RoundTrip ==
    (last.op = "load" /\ Ok) =>
        \A a \in DOMAIN insts :
            (/\ a # last.self
             /\ State(insts, heap, a) = "trained"
             /\ files[last.path] = Dumps(heap, insts[a].model))
            => \A X \in Matrices(MaxRows) :
                  predict_result(insts, heap, last.self, X) =
                  predict_result(insts, heap, a, X)

\* a fresh untrained B of A's variant has loaded what the trained A saved
C4_Witness ==
    /\ last.op = "load" /\ Ok /\ last.before = "untrained"
    /\ \E a \in DOMAIN insts :
          /\ a # last.self
          /\ insts[a].model_name = insts[last.self].model_name
          /\ State(insts, heap, a) = "trained"
          /\ files[last.path] = Dumps(heap, insts[a].model)
          /\ PredictSucceeds(last.self)

\* C5: get_model with a registered key returns an instance that did not exist
\* before the call, named after the key's variant, holding an estimator of
\* that variant which no other instance holds, and untrained.
C5_FactoryReturnsFreshUntrained ==
    [][(last'.op = "get_model" /\ last'.key \in {"decision_tree", "random_forest"}) =>
          /\ last'.exc = NoError
          /\ last'.inst \notin DOMAIN insts
          /\ last'.inst \in DOMAIN insts'
          /\ insts'[last'.inst].model_name =
                (IF last'.key = "decision_tree" THEN "DecisionTree" ELSE "RandomForest")
          /\ insts'[last'.inst].model # None
          /\ heap'[insts'[last'.inst].model].cls =
                (IF last'.key = "decision_tree" THEN "DecisionTreeClassifier"
                 ELSE "RandomForestClassifier")
          /\ State(insts', heap', last'.inst) = "untrained"
          /\ \A j \in DOMAIN insts :
                insts'[j] = insts[j] /\ insts'[j].model # insts'[last'.inst].model]_vars

\* the factory's second call has returned a second instance
C5_Witness ==
    /\ last.op = "get_model" /\ Ok
    /\ last.inst = 2 /\ Len(insts) = 2
    /\ State(insts, heap, 1) = "trained"
    /\ State(insts, heap, 2) = "untrained"

\* C6: get_model with an unregistered key raises a ValueError that carries
\* the key and lists exactly decision_tree and random_forest; it returns no
\* instance and constructs none.
C6_UnknownKeyRejected ==
    [][(last'.op = "get_model" /\ last'.key \notin {"decision_tree", "random_forest"}) =>
          /\ last'.exc.exc = "ValueError"
          /\ last'.exc.at = "get_model"
          /\ last'.exc.key = last'.key
          /\ Len(last'.exc.available) = 2
          /\ Range(last'.exc.available) = {"decision_tree", "random_forest"}
          /\ last'.inst = 0
          /\ UNCHANGED <<insts, heap, files>>]_vars

C6_Witness ==
    /\ last.op = "get_model" /\ last.key = "unknown_key"
    /\ last.exc = UnknownModelTypeError("unknown_key")
    /\ Len(insts) = 1

\* C7: train raises ValueError("Model not initialized") exactly when the
\* instance holds no estimator, and then changes nothing; a train that
\* returns leaves the instance trained, whether it was untrained or trained.
C7_TrainInitialisedOnly ==
    [][last'.op = "train" =>
          /\ last'.exc = NotInitializedError <=> insts[last'.self].model = None
          /\ last'.exc = NotInitializedError => UNCHANGED <<insts, heap, files>>
          /\ last'.exc = NoError =>
                /\ last'.before \in {"untrained", "trained"}
                /\ State(insts', heap', last'.self) = "trained"]_vars

C7_Witness ==
    /\ last.op = "train" /\ last.exc = NotInitializedError
    /\ last.before = "uninitialized"
    /\ State(insts, heap, last.self) = "uninitialized"

\* C8: predict, evaluate and save, whether they return or raise, leave every
\* instance's estimator and model_name as they were.
C8_ReadOnlyCalls ==
    [][last'.op \in {"predict", "evaluate", "save"} => UNCHANGED <<insts, heap>>]_vars

\* a trained instance has been evaluated
C8_Witness ==
    /\ last.op = "evaluate" /\ Ok
    /\ State(insts, heap, last.self) = "trained"
    /\ DOMAIN last.metrics = {"precision", "recall", "f1_score"}

\* C9: evaluate never raises a division error, and what it returns has
\* exactly the keys precision, recall and f1_score with
\* f1_score = 2*P*R/(P+R) when P+R > 0 and f1_score = 0 when P+R = 0, for
\* P and R the precision and recall it returns.
C9_F1FromPrecisionRecall ==
    last.op = "evaluate" =>
        /\ last.exc.exc # "ZeroDivisionError"
        /\ Ok =>
              LET P == last.metrics.precision
                  R == last.metrics.recall
                  F == last.metrics.f1_score
                  sum == P[1] * R[2] + R[1] * P[2]     \* P + R = sum / (P[2] * R[2])
              IN /\ DOMAIN last.metrics = {"precision", "recall", "f1_score"}
                 /\ P[2] > 0 /\ R[2] > 0 /\ F[2] > 0
                 /\ sum > 0 => F[1] * sum = 2 * P[1] * R[1] * F[2]
                 /\ sum = 0 => F[1] = 0

\* evaluate has returned precision 0, recall 0 and f1_score 0
C9_Witness ==
    /\ last.op = "evaluate" /\ Ok
    /\ last.metrics.precision[1] = 0
    /\ last.metrics.recall[1] = 0
    /\ last.metrics.f1_score[1] = 0

C11_Determinism ==
    [][(last'.op = "train" /\ last'.exc = NoError) =>
          LET a == last'.self
              b == last.self
              est == heap[insts[a].model]
          IN /\ heap'[insts'[a].model] =
                   Fit(UnfittedEstimator(est.cls, est.max_depth, est.random_state,
                                         est.n_estimators), last'.X, last'.y)
             /\ (/\ last.op = "train" /\ last.exc = NoError /\ b # a
                 /\ last.X = last'.X /\ last.y = last'.y
                 /\ heap[insts[b].model].cls = est.cls
                 /\ heap[insts[b].model].max_depth = est.max_depth
                 /\ heap[insts[b].model].random_state = est.random_state
                 /\ heap[insts[b].model].n_estimators = est.n_estimators)
                => \A X \in Matrices(MaxRows) :
                      predict_result(insts', heap', a, X) =
                      predict_result(insts', heap', b, X)]_vars

\* an instance that was already trained has been trained again and now holds
\* an estimator equal to that of another instance of its variant
C11_Witness ==
    /\ last.op = "train" /\ Ok /\ last.before = "trained"
    /\ \E b \in DOMAIN insts :
          /\ b # last.self
          /\ insts[b].model_name = insts[last.self].model_name
          /\ State(insts, heap, b) = "trained"
          /\ insts[b].model # insts[last.self].model
          /\ heap[insts[b].model] = heap[insts[last.self].model]
          /\ heap[insts[b].model].random_state = DefaultRandomState

\* C12: no two instances hold the same estimator object, and a train or a
\* load on one instance leaves every other instance, its state and its
\* predictions as they were.
C12_ExclusiveOwnership ==
    [][/\ \A i, j \in DOMAIN insts' :
             (i # j /\ insts'[i].model # None) => insts'[i].model # insts'[j].model
       /\ last'.op \in {"train", "load"} =>
             \A j \in DOMAIN insts :
                j # last'.self =>
                   /\ insts'[j] = insts[j]
                   /\ State(insts', heap', j) = State(insts, heap, j)
                   /\ \A X \in Matrices(MaxRows) :
                         predict_result(insts', heap', j, X) =
                         predict_result(insts, heap, j, X)]_vars

\* two instances have loaded the same artifact: each holds an object of its
\* own, equal to what the artifact decodes to (the other, constructed by
\* ModelBase(), can only have its estimator from a load)
C12_Witness ==
    /\ last.op = "load" /\ Ok
    /\ \E j \in DOMAIN insts :
          /\ j # last.self
          /\ insts[j].model_name = "BaseModel"
          /\ insts[j].model # None /\ insts[last.self].model # None
          /\ insts[j].model # insts[last.self].model
          /\ heap[insts[j].model] = Loads(files[last.path])
          /\ heap[insts[last.self].model] = Loads(files[last.path])
          /\ State(insts, heap, j) = "trained"

\* C13: a save replaces what the path held by the pickle of the saver's
\* estimator as it is at that moment (None for an instance without one), with
\* no trace of the wrapper or its model_name, and touches no other path; no
\* other call changes any file.
C13_SaveOverwrites ==
    [][/\ (last'.op = "save" /\ last'.exc = NoError) =>
             LET f == files'[last'.path]
                 m == insts[last'.self].model
             IN /\ DOMAIN f = {"exists", "kind", "cls", "state"}
                /\ f.exists
                /\ IF m = None THEN f.kind = "None"
                   ELSE f.kind = "object" /\ Loads(f) = heap[m]
                /\ \A p \in Paths \ {last'.path} : files'[p] = files[p]
       /\ last'.op # "save" => files' = files]_vars

\* the only instance saved while trained and was trained again since: the
\* artifact still holds the estimator as it was saved
C13_Witness ==
    /\ Len(insts) = 1
    /\ last.op = "train" /\ Ok /\ last.before = "trained"
    /\ \E p \in Paths :
          /\ files[p].kind = "object" /\ files[p].state.fitted
          /\ files[p].cls = heap[insts[1].model].cls
          /\ files[p] # Dumps(heap, insts[1].model)

\* C14: a load that fails raises the error of open (the file is missing) or
\* of pickle.load (the file is no pickle) to the caller and leaves every
\* instance, every estimator and every file as before the call.
C14_FailedLoadChangesNothing ==
    [][(last'.op = "load" /\ last'.exc # NoError) =>
          /\ last'.exc = LoadError(files[last'.path])
          /\ last'.exc \in {FileNotFoundError, UnpicklingError}
          /\ UNCHANGED <<insts, heap, files>>
          /\ State(insts', heap', last'.self) = last'.before
          /\ \A X \in Matrices(MaxRows) :
                predict_result(insts', heap', last'.self, X) =
                predict_result(insts, heap, last'.self, X)]_vars

\* a trained instance has tried to load a file that is no pickle
C14_Witness ==
    /\ last.op = "load" /\ last.exc = UnpicklingError
    /\ last.before = "trained"
    /\ State(insts, heap, last.self) = "trained"
    /\ PredictSucceeds(last.self)

\* C15: the model_name of an instance is set by its constructor (BaseModel,
\* DecisionTree or RandomForest, by variant) and no call changes it
\* afterwards; after a load the instance carries the name of the variant that
\* constructed it, whatever class of estimator the file held.
C15_NameFixedAtConstruction ==
    [][/\ Len(insts') >= Len(insts)
       /\ \A i \in DOMAIN insts : insts'[i].model_name = insts[i].model_name
       /\ Len(insts') > Len(insts) =>
             /\ Len(insts') = Len(insts) + 1
             /\ last'.inst = Len(insts')
             /\ insts'[last'.inst].model_name =
                   CASE last'.op = "ModelBase" -> "BaseModel"
                     [] last'.op = "DecisionTreeModel" -> "DecisionTree"
                     [] last'.op = "RandomForestModel" -> "RandomForest"
                     [] last'.op = "get_model" /\ last'.key = "decision_tree" -> "DecisionTree"
                     [] last'.op = "get_model" /\ last'.key = "random_forest" -> "RandomForest"
                     [] OTHER -> "?"]_vars

\* an instance constructed as a decision tree has loaded a random forest and
\* is still named DecisionTree
C15_Witness ==
    /\ last.op = "load" /\ Ok
    /\ insts[last.self].model_name = "DecisionTree"
    /\ insts[last.self].model # None
    /\ heap[insts[last.self].model].cls = "RandomForestClassifier"

\* C16: main returns 1 exactly when wait_for_api has returned False, and then
\* no test_endpoint request was issued; when wait_for_api has returned True,
\* main issues the requests of its text in their order (root, health,
\* protocols, the four predict cases, the invalid category) and, having issued
\* them all, returns 0 whatever test_endpoint returned.
C16_MainRunsAllTestsWhenReady ==
    /\ Len(sent) <= Len(main_calls)
    /\ sent = SubSeq(main_calls, 1, Len(sent))
    /\ pc = "return 1" <=> ready = "False"
    /\ ready = "False" => sent = <<>>
    /\ ready = "pending" => sent = <<>> /\ pc = "wait_for_api"
    /\ (ready = "True" /\ pc # "test_endpoint") =>
          /\ pc = "return 0"
          /\ sent = main_calls
          /\ Len(results) = Len(main_calls)

====
